---- MODULE Spec2Model ----
(***************************************************************************)
(* Model of pkg/gitgen/mod.go: the orchestrator Do, the instruction        *)
(* selector getPrompt and the two diff providers runDiffOnCli and          *)
(* runDiffWithGoGit, over a small git repository (two commits, one ref     *)
(* store, a working tree).                                                 *)
(*                                                                         *)
(* A patch text is modelled by its content: the set of file-level changes  *)
(* [path, from, to] it lists; the empty text is the empty set.             *)
(***************************************************************************)
EXTENDS Integers, Sequences, FiniteSets, TLC

VARIABLES
    env,            \* the repository and tool environment of the process
    pc,             \* position of the current invocation of Do
    calls,          \* invocations of Do started so far
    promptType,     \* Do's first argument
    config,         \* Do's second argument
    userPrompt,     \* Do's local userPrompt
    systemPrompt,   \* Do's local systemPrompt
    runtime,        \* Do's local runtime (models.Model)
    execCall,       \* arguments of the ExecPrompt call of this invocation
    response,       \* what ExecPrompt returned
    ret,            \* what Do returned: [content, err]
    steps,          \* external steps performed by this invocation, in order
    callerCancelled,\* the caller of Do gave up (cancelled / deadline passed)
    cliOut,         \* result of runDiffOnCli in the diff-provider harness
    goGitOut        \* result of runDiffWithGoGit in the diff-provider harness

vars == <<env, pc, calls, promptType, config, userPrompt, systemPrompt, runtime,
          execCall, response, ret, steps, callerCancelled, cliOut, goGitOut>>

-----------------------------------------------------------------------------
(* Bounds *)

MaxCalls == 2       \* invocations of Do in one behaviour
MaxBlob == 1        \* file versions 1..MaxBlob; 0 is "file absent"

-----------------------------------------------------------------------------
(* Errors.  An error value is [is, msg]: `is` is the sentinel errors.Is    *)
(* finds, msg the formatted arguments.                                     *)

Err(kind) == [is |-> kind, msg |-> <<>>]
nil == Err("nil")
ExitError == Err("exec.ExitError")
ErrRepositoryNotExists == Err("git.ErrRepositoryNotExists")
ErrInvalidReferenceName == Err("plumbing.ErrInvalidReferenceName")
ErrReferenceNotFound == Err("plumbing.ErrReferenceNotFound")
ErrObjectNotFound == Err("plumbing.ErrObjectNotFound")
ErrBackendUnavailable == Err("BackendUnavailableError")
ErrBackendExecution == Err("BackendExecutionError")

ErrUnknownPlatform == Err("unknown platform")

Is(err, target) == err.is = target.is

-----------------------------------------------------------------------------
(* PromptType *)

PromptCommitMessage == 0
PromptCodeReview == 1
PromptTestCase == 2

PromptTypes == {PromptCommitMessage, PromptCodeReview, PromptTestCase}
\* PromptType is an int: a caller can pass a value outside the enumeration.
PromptTypeInputs == PromptTypes \cup {3}

getPrompt(pt) ==
    CASE pt = PromptCommitMessage ->
           "please generate a git commit message with a simple explanation from the changes stated above which is an output of a git diff command. all response of this message should be wrapped in a markdown format because it will be shared in a text-only terminal interface."
      [] pt = PromptCodeReview ->
           "please perform a efficient and concise code review which points out crucial improvements could be changed on the target code. the target code is stated above which is an output of a git diff command. all response of this message should be wrapped in a markdown format because it will be shared in a text-only terminal interface."
      [] pt = PromptTestCase ->
           "Please generate detailed test cases from the changes stated above, which is an output of a git diff command. The test cases should be comprehensive and cover all the modifications, additions, and deletions in the code. All responses to this message should be wrapped in a markdown format because it will be shared in a text-only terminal interface. Ensure that the test cases include the following details\n- Description,\n- Steps, Detailed steps to execute the test case. \n- Expected Result, The expected outcome of the test case.\n- Actual Result, (This will be filled out during testing.)"
      [] OTHER -> ""

-----------------------------------------------------------------------------
(* The repository *)

Paths == {"a.go", "b.go"}
Blobs == 0..MaxBlob
Trees == [Paths -> Blobs]

Hashes == {"h1", "h2"}
ZeroHash == "0000"

HashRef(h) == [type |-> "hash", hash |-> h, target |-> ""]
SymbolicRef(t) == [type |-> "symbolic", hash |-> ZeroHash, target |-> t]
NoRef == [type |-> "none", hash |-> ZeroHash, target |-> ""]

\* env.head: "attached" is a checked-out branch (HEAD is "ref: refs/heads/main"),
\* "detached" is HEAD holding a commit hash.
Envs ==
    [tree : [Hashes -> Trees],
     head : {"attached", "detached"},
     dirty : BOOLEAN,        \* the working tree has an uncommitted change
     inRepo : BOOLEAN,       \* the working directory is inside a repository
     pathspecOk : BOOLEAN]   \* arguments that are no revision name existing paths

RefStore(e) ==
    [n \in {"HEAD", "refs/heads/main", "refs/heads/dev"} |->
        CASE n = "HEAD" -> IF e.head = "attached" THEN SymbolicRef("refs/heads/main")
                                                  ELSE HashRef("h2")
          [] n = "refs/heads/main" -> HashRef("h1")
          [] n = "refs/heads/dev" -> HashRef("h2")]

\* Storer.Reference: the stored reference, not followed.
StorerReference(e, name) ==
    IF name \in DOMAIN RefStore(e)
    THEN [ref |-> RefStore(e)[name], err |-> nil]
    ELSE [ref |-> NoRef, err |-> ErrReferenceNotFound]

\* repo.Reference(name, true): symbolic references are followed.
RECURSIVE ResolveReference(_, _, _)
ResolveReference(e, name, depth) ==
    LET r == StorerReference(e, name) IN
    IF r.err # nil \/ r.ref.type = "hash" THEN r
    ELSE IF depth = 0 THEN [ref |-> NoRef, err |-> ErrReferenceNotFound]
    ELSE ResolveReference(e, r.ref.target, depth - 1)

RepoReference(e, name) == ResolveReference(e, name, 2)

\* repo.CommitObject(hash) followed by commit.Tree().
CommitTree(e, h) ==
    IF h \in Hashes THEN [tree |-> e.tree[h], err |-> nil]
    ELSE [tree |-> [p \in Paths |-> 0], err |-> ErrObjectNotFound]

HeadCommit(e) == RepoReference(e, "HEAD").ref.hash

WorkTree(e) ==
    LET t == e.tree[HeadCommit(e)] IN
    IF e.dirty THEN [t EXCEPT !["a.go"] = IF @ = 0 THEN 1 ELSE 0] ELSE t

\* tree-to-tree diff as the file-level changes from `from` to `to`
TreeDiff(from, to) ==
    {[path |-> p, from |-> from[p], to |-> to[p]] : p \in {q \in Paths : from[q] # to[q]}}

ChangedPaths(text) == {c.path : c \in text}

EmptyText == {}

-----------------------------------------------------------------------------
(* Reference names a caller may pass in config.SourceRef / DestinationRef *)

RefInputs == {"refs/heads/main", "refs/heads/dev", "dev", "refs/heads/none", "../../etc"}
DestInputs == RefInputs \cup {""}

\* plumbing.ReferenceName.Validate (git check-ref-format without
\* --allow-onelevel): the empty name, a component beginning with a dot
\* ("../../etc") and a one-level name ("dev") are refused.
Validate(name) ==
    IF name \in {"", "../../etc", "dev"} THEN ErrInvalidReferenceName ELSE nil

\* How the git command line reads an argument as a revision: a full
\* reference name, or a short branch name looked up under refs/heads/.
CliRevision(e, arg) ==
    LET full == IF arg = "dev" THEN "refs/heads/dev" ELSE arg IN
    RepoReference(e, full)

\* exec.Command("git", "diff", args...) followed by cmd.Run(): standard
\* output and the run's error.  With one revision git compares it with the
\* working tree, with two it compares the two commits.  An argument that is
\* no revision is taken as a path: git fails unless such a path exists, and
\* then prints the changes under it (none: no tracked file of the model
\* lies under it).
GitDiff(e, args) ==
    LET revs == [i \in DOMAIN args |-> CliRevision(e, args[i])] IN
    IF ~e.inRepo THEN [out |-> EmptyText, err |-> ExitError]
    ELSE IF \E i \in DOMAIN args : revs[i].err # nil
    THEN IF e.pathspecOk THEN [out |-> EmptyText, err |-> nil]
                         ELSE [out |-> EmptyText, err |-> ExitError]
    ELSE IF Len(args) = 1
    THEN [out |-> TreeDiff(e.tree[revs[1].ref.hash], WorkTree(e)), err |-> nil]
    ELSE [out |-> TreeDiff(e.tree[revs[1].ref.hash], e.tree[revs[2].ref.hash]),
          err |-> nil]

runDiffOnCli(e, cfg) ==
    LET cmd == IF cfg.DestinationRef = ""
               THEN <<cfg.SourceRef>>
               ELSE <<cfg.SourceRef, cfg.DestinationRef>>
        run == GitDiff(e, cmd)
    IN IF run.err # nil THEN [out |-> EmptyText, err |-> run.err]
       ELSE [out |-> run.out, err |-> nil]

\* The destination reference of runDiffWithGoGit (the if/else at its middle).
GoGitDestRef(e, cfg) ==
    IF cfg.DestinationRef # ""
    THEN IF Validate(cfg.DestinationRef) # nil
         THEN [ref |-> NoRef, err |-> Validate(cfg.DestinationRef)]
         ELSE RepoReference(e, cfg.DestinationRef)
    ELSE StorerReference(e, "HEAD")

runDiffWithGoGit(e, cfg) ==
    LET fail(err) == [out |-> EmptyText, err |-> err]
        srcRef == RepoReference(e, cfg.SourceRef)
        srcTree == CommitTree(e, srcRef.ref.hash)
        destRef == GoGitDestRef(e, cfg)
        destTree == CommitTree(e, destRef.ref.hash)
    IN IF ~e.inRepo THEN fail(ErrRepositoryNotExists)
       ELSE IF Validate(cfg.SourceRef) # nil THEN fail(Validate(cfg.SourceRef))
       ELSE IF srcRef.err # nil THEN fail(srcRef.err)
       ELSE IF srcTree.err # nil THEN fail(srcTree.err)
       ELSE IF destRef.err # nil THEN fail(destRef.err)
       ELSE IF destTree.err # nil THEN fail(destTree.err)
       ELSE [out |-> TreeDiff(destTree.tree, srcTree.tree), err |-> nil]

-----------------------------------------------------------------------------
(* Config and the model backends (package models) *)

Platforms == {"openai", "ollama", "bogus"}

Configs ==
    [SourceRef : RefInputs,
     DestinationRef : DestInputs,
     Platform : Platforms,
     PlatformApiKey : {"sk-key"},
     Model : {"gpt-4o"},
     PromptMaxTokens : {4000},
     PromptRequestTimeoutSeconds : {3600}]

ZeroConfig ==
    [SourceRef |-> "", DestinationRef |-> "", Platform |-> "", PlatformApiKey |-> "",
     Model |-> "", PromptMaxTokens |-> 0, PromptRequestTimeoutSeconds |-> 0]

\* Mutant of ModelConfigOf: the token limit is not copied.
ModelConfigOfNoTokens(cfg) ==
    [PlatformApiKey |-> cfg.PlatformApiKey,
     Platform |-> cfg.Platform,
     Model |-> cfg.Model,
     PromptMaxTokens |-> 0,
     PromptRequestTimeoutSeconds |-> cfg.PromptRequestTimeoutSeconds]

ModelConfigOf(cfg) ==
    [PlatformApiKey |-> cfg.PlatformApiKey,
     Platform |-> cfg.Platform,
     Model |-> cfg.Model,
     PromptMaxTokens |-> cfg.PromptMaxTokens,
     PromptRequestTimeoutSeconds |-> cfg.PromptRequestTimeoutSeconds]

NoRuntime == [variant |-> "none", cfg |-> ModelConfigOf(ZeroConfig)]

\* models.NewOpenAi: construction never fails.
NewOpenAi(modelConfig) == [variant |-> "openai", cfg |-> modelConfig]

\* models.NewOllamaAi: construction fails when the local server is unreachable.
NewOllamaAi(modelConfig, reachable) ==
    IF reachable
    THEN [runtime |-> [variant |-> "ollama", cfg |-> modelConfig], err |-> nil]
    ELSE [runtime |-> NoRuntime, err |-> ErrBackendUnavailable]

\* What Model.ExecPrompt can return: a response with some content, or an error.
Contents == {"", "feat: add b.go", "looks good"}
ExecOutcomes ==
    {[Content |-> c, err |-> nil] : c \in Contents}
        \cup {[Content |-> "", err |-> ErrBackendExecution]}
NoResponse == [Content |-> "", err |-> nil]

\* context.Background() is never cancelled; a context derived from the
\* caller's would be done once the caller cancels.
Background == [kind |-> "Background"]
CtxDone(ctx, cancelled) == ctx.kind # "Background" /\ cancelled

-----------------------------------------------------------------------------
(* Do, step by step *)

Return(content, err) == [content |-> content, err |-> err]
NoReturn == Return("", nil)

NoExecCall ==
    [called |-> FALSE, ctx |-> Background, system |-> "", user |-> EmptyText,
     runtime |-> NoRuntime]

\* Mutant of AfterDiff: the diff's error is not checked.
AfterDiffUnchecked(r) == [pc |-> "select", ret |-> NoReturn]

\* if err != nil { return "", err } after the diff
AfterDiff(r) ==
    IF r.err # nil THEN [pc |-> "done", ret |-> Return("", r.err)]
    ELSE [pc |-> "select", ret |-> NoReturn]

\* Mutant of PlatformCase: an unrecognised platform falls back to the hosted backend.
PlatformCaseFallback(platform) ==
    CASE platform = "ollama" -> "ollama"
      [] OTHER -> "openai"

\* switch modelConfig.Platform
PlatformCase(platform) ==
    CASE platform = "openai" -> "openai"
      [] platform = "ollama" -> "ollama"
      [] OTHER -> "default"

\* fmt.Errorf("unknown platform %s - %w", modelConfig.Platform, ErrUnknownPlatform)
UnknownPlatformErrorf(platform) ==
    [is |-> ErrUnknownPlatform.is, msg |-> <<"unknown platform", platform>>]

\* if err != nil { return "", err } after models.NewOllamaAi
AfterConstruct(c) ==
    IF c.err # nil THEN [pc |-> "done", ret |-> Return("", c.err)]
    ELSE [pc |-> "exec", ret |-> NoReturn]

\* runtime.ExecPrompt(context.Background(), systemPrompt, userPrompt)
ExecArgs(rt, sys, usr) ==
    [called |-> TRUE, ctx |-> Background, system |-> sys, user |-> usr, runtime |-> rt]

\* Mutant of AfterExec: the content is dropped on success.
AfterExecNoContent(r) == [pc |-> "done", ret |-> Return("", r.err)]

\* Mutant of AfterExec: a failed backend call is attempted again.
AfterExecRetry(r) ==
    IF r.err # nil THEN [pc |-> "exec", ret |-> NoReturn]
    ELSE [pc |-> "done", ret |-> Return(r.Content, nil)]

\* if err != nil { return "", err } ... return response.Content, nil
AfterExec(r) ==
    IF r.err # nil THEN [pc |-> "done", ret |-> Return("", r.err)]
    ELSE [pc |-> "done", ret |-> Return(r.Content, nil)]

NotRun == [ran |-> FALSE, out |-> EmptyText, err |-> nil]
Ran(r) == [ran |-> TRUE, out |-> r.out, err |-> r.err]

\* A caller invokes Do(promptType, config).
Call(pt, cfg) ==
    /\ pc = "idle"
    /\ calls < MaxCalls
    /\ calls' = calls + 1
    /\ promptType' = pt
    /\ config' = cfg
    /\ userPrompt' = EmptyText
    /\ systemPrompt' = ""
    /\ runtime' = NoRuntime
    /\ execCall' = NoExecCall
    /\ response' = NoResponse
    /\ ret' = NoReturn
    /\ steps' = <<>>
    /\ callerCancelled' = FALSE
    /\ pc' = "diff"
    /\ UNCHANGED <<env, cliOut, goGitOut>>

DoDiff ==
    /\ pc = "diff"
    /\ LET r == runDiffOnCli(env, config) IN
         /\ userPrompt' = r.out
         /\ pc' = AfterDiff(r).pc
         /\ ret' = AfterDiff(r).ret
    /\ steps' = Append(steps, "diff")
    /\ UNCHANGED <<env, calls, promptType, config, systemPrompt, runtime, execCall,
                   response, callerCancelled, cliOut, goGitOut>>

DoSelect ==
    /\ pc = "select"
    /\ systemPrompt' = getPrompt(promptType)
    /\ steps' = Append(steps, "select")
    /\ pc' = "construct"
    /\ UNCHANGED <<env, calls, promptType, config, userPrompt, runtime, execCall,
                   response, ret, callerCancelled, cliOut, goGitOut>>

DoConstructOpenAi ==
    /\ pc = "construct"
    /\ PlatformCase(ModelConfigOf(config).Platform) = "openai"
    /\ runtime' = NewOpenAi(ModelConfigOf(config))
    /\ steps' = Append(steps, "construct")
    /\ pc' = "exec"
    /\ UNCHANGED <<env, calls, promptType, config, userPrompt, systemPrompt, execCall,
                   response, ret, callerCancelled, cliOut, goGitOut>>

DoConstructOllama ==
    /\ pc = "construct"
    /\ PlatformCase(ModelConfigOf(config).Platform) = "ollama"
    /\ \E reachable \in BOOLEAN :
         LET c == NewOllamaAi(ModelConfigOf(config), reachable) IN
           /\ runtime' = c.runtime
           /\ pc' = AfterConstruct(c).pc
           /\ ret' = AfterConstruct(c).ret
    /\ steps' = Append(steps, "construct")
    /\ UNCHANGED <<env, calls, promptType, config, userPrompt, systemPrompt, execCall,
                   response, callerCancelled, cliOut, goGitOut>>

DoUnknownPlatform ==
    /\ pc = "construct"
    /\ PlatformCase(ModelConfigOf(config).Platform) = "default"
    /\ ret' = Return("", UnknownPlatformErrorf(ModelConfigOf(config).Platform))
    /\ pc' = "done"
    /\ UNCHANGED <<env, calls, promptType, config, userPrompt, systemPrompt, runtime,
                   execCall, response, steps, callerCancelled, cliOut, goGitOut>>

\* ExecPrompt is entered ...
DoExecCall ==
    /\ pc = "exec"
    /\ execCall' = ExecArgs(runtime, systemPrompt, userPrompt)
    /\ steps' = Append(steps, "exec")
    /\ pc' = "inExec"
    /\ UNCHANGED <<env, calls, promptType, config, userPrompt, systemPrompt, runtime,
                   response, ret, callerCancelled, cliOut, goGitOut>>

\* ... and returns; Do returns with it.
DoExecReturn ==
    /\ pc = "inExec"
    /\ \E r \in ExecOutcomes :
         /\ response' = r
         /\ pc' = AfterExec(r).pc
         /\ ret' = AfterExec(r).ret
    /\ UNCHANGED <<env, calls, promptType, config, userPrompt, systemPrompt, runtime,
                   execCall, steps, callerCancelled, cliOut, goGitOut>>

\* The caller has Do's result; nothing of the invocation is kept.
Receive ==
    /\ pc = "done"
    /\ pc' = "idle"
    /\ promptType' = PromptCommitMessage
    /\ config' = ZeroConfig
    /\ userPrompt' = EmptyText
    /\ systemPrompt' = ""
    /\ runtime' = NoRuntime
    /\ execCall' = NoExecCall
    /\ response' = NoResponse
    /\ ret' = NoReturn
    /\ steps' = <<>>
    /\ callerCancelled' = FALSE
    /\ UNCHANGED <<env, calls, cliOut, goGitOut>>

\* The caller cancels, or its deadline passes, while Do is running: during
\* the diff or during the backend call, the two places Do blocks.
CallerCancel ==
    /\ pc \in {"diff", "inExec"}
    /\ ~callerCancelled
    /\ callerCancelled' = TRUE
    /\ UNCHANGED <<env, pc, calls, promptType, config, userPrompt, systemPrompt,
                   runtime, execCall, response, ret, steps, cliOut, goGitOut>>

\* The repositories Do is run in: branch main is checked out and its tree is
\* fixed, the rest varies.
DoEnvs == {e \in Envs : e.head = "attached" /\ \A p \in Paths : e.tree["h1"][p] = 1}

Init ==
    /\ env \in DoEnvs
    /\ pc = "idle"
    /\ calls = 0
    /\ promptType = PromptCommitMessage
    /\ config = ZeroConfig
    /\ userPrompt = EmptyText
    /\ systemPrompt = ""
    /\ runtime = NoRuntime
    /\ execCall = NoExecCall
    /\ response = NoResponse
    /\ ret = NoReturn
    /\ steps = <<>>
    /\ callerCancelled = FALSE
    /\ cliOut = NotRun
    /\ goGitOut = NotRun

Next ==
    \/ \E pt \in PromptTypeInputs, cfg \in Configs : Call(pt, cfg)
    \/ DoDiff
    \/ DoSelect
    \/ DoConstructOpenAi
    \/ DoConstructOllama
    \/ DoUnknownPlatform
    \/ DoExecCall
    \/ DoExecReturn
    \/ Receive
    \/ CallerCancel

Spec == Init /\ [][Next]_vars

-----------------------------------------------------------------------------
(* The two diff providers run side by side on the same repository and      *)
(* configuration.                                                          *)

DiffRunCli ==
    /\ ~cliOut.ran
    /\ cliOut' = Ran(runDiffOnCli(env, config))
    /\ UNCHANGED <<env, pc, calls, promptType, config, userPrompt, systemPrompt,
                   runtime, execCall, response, ret, steps, callerCancelled, goGitOut>>

DiffRunGoGit ==
    /\ ~goGitOut.ran
    /\ goGitOut' = Ran(runDiffWithGoGit(env, config))
    /\ UNCHANGED <<env, pc, calls, promptType, config, userPrompt, systemPrompt,
                   runtime, execCall, response, ret, steps, callerCancelled, cliOut>>

DiffInit ==
    /\ env \in Envs
    /\ config \in {c \in Configs : c.Platform = "openai"}
    /\ pc = "idle"
    /\ calls = 0
    /\ promptType = PromptCommitMessage
    /\ userPrompt = EmptyText
    /\ systemPrompt = ""
    /\ runtime = NoRuntime
    /\ execCall = NoExecCall
    /\ response = NoResponse
    /\ ret = NoReturn
    /\ steps = <<>>
    /\ callerCancelled = FALSE
    /\ cliOut = NotRun
    /\ goGitOut = NotRun

DiffNext == DiffRunCli \/ DiffRunGoGit

DiffSpec == DiffInit /\ [][DiffNext]_vars

-----------------------------------------------------------------------------
(* Properties *)

Recognised == {"openai", "ollama"}
InSteps(x) == \E i \in DOMAIN steps : steps[i] = x
Count(x) == Cardinality({i \in DOMAIN steps : steps[i] = x})
LinearOrder == <<"diff", "select", "construct", "exec">>
Prefix(n) == SubSeq(LinearOrder, 1, n)
\* names no git reference can have (a component beginning with a dot)
MalformedNames == {"../../etc"}
ReferenceResolutionErrors == {ErrInvalidReferenceName, ErrReferenceNotFound}

\* C1 (as stated): every invocation of Do with an unrecognised platform
\* returns ErrUnknownPlatform, with no backend constructed and no ExecPrompt
\* call.
C1_UnknownPlatformAlways ==
    (pc = "done" /\ config.Platform \notin Recognised)
        => /\ Is(ret.err, ErrUnknownPlatform)
           /\ ~InSteps("construct")
           /\ ~execCall.called

\* C1 (amended): with an unrecognised platform no backend is ever constructed
\* and ExecPrompt is never called; Do returns ErrUnknownPlatform (and no
\* content) when the diff step succeeded, and the diff's error when it failed.
C1_UnknownPlatform ==
    config.Platform \notin Recognised
        => /\ runtime = NoRuntime
           /\ ~InSteps("construct")
           /\ ~execCall.called
           /\ pc \notin {"exec", "inExec"}
           /\ pc = "done" =>
                LET d == runDiffOnCli(env, config) IN
                IF d.err = nil
                THEN Is(ret.err, ErrUnknownPlatform) /\ ret.content = ""
                ELSE ret = Return("", d.err)

C1_Witness ==
    /\ pc = "done"
    /\ config.Platform = "bogus"
    /\ runDiffOnCli(env, config).err = nil
    /\ Is(ret.err, ErrUnknownPlatform)

\* C2: Do's steps run in the order diff, select, construct, exec, return; the
\* first failing step ends the invocation with that step's error and no
\* later step is performed.
C2_LinearOrder ==
    /\ \E n \in 0..Len(LinearOrder) : steps = Prefix(n)
    /\ pc = "diff" => steps = Prefix(0)
    /\ pc = "select" => steps = Prefix(1)
    /\ pc = "construct" => steps = Prefix(2)
    /\ pc = "exec" => steps = Prefix(3)
    /\ pc = "inExec" => steps = Prefix(4)
    /\ pc = "done" =>
         LET d == runDiffOnCli(env, config) IN
         IF d.err # nil
         THEN steps = Prefix(1) /\ ret = Return("", d.err)
              /\ runtime = NoRuntime /\ ~execCall.called
         ELSE IF config.Platform \notin Recognised
         THEN steps = Prefix(2) /\ Is(ret.err, ErrUnknownPlatform) /\ ret.content = ""
              /\ runtime = NoRuntime /\ ~execCall.called
         ELSE IF runtime = NoRuntime
         THEN steps = Prefix(3) /\ ret = Return("", ErrBackendUnavailable)
              /\ ~execCall.called
         ELSE /\ steps = Prefix(4)
              /\ execCall.called
              /\ response.err # nil => ret = Return("", response.err)
              /\ response.err = nil => ret.err = nil

C2_Witness ==
    /\ pc = "done"
    /\ steps = Prefix(3)
    /\ ret.err = ErrBackendUnavailable
    /\ ~execCall.called

\* C3: when every step succeeds and the backend returns content c, Do returns
\* exactly c and a nil error.
C3_ContentUnchanged ==
    (pc = "done" /\ execCall.called /\ response.err = nil)
        => ret = Return(response.Content, nil)

C3_Witness ==
    /\ pc = "done"
    /\ execCall.called
    /\ response.err = nil
    /\ ret.content = "looks good"
    /\ promptType = PromptTestCase

\* C4: getPrompt gives a non-empty string for each of the three task types,
\* pairwise distinct, and a task type outside the enumeration fails with
\* InvalidTaskType instead of yielding an empty instruction.
C4_SelectorTotalAndFailsFast ==
    /\ \A t \in PromptTypes : getPrompt(t) # ""
    /\ \A t, u \in PromptTypes : t # u => getPrompt(t) # getPrompt(u)
    /\ (InSteps("select") /\ promptType \notin PromptTypes)
          => /\ systemPrompt # ""
             /\ pc = "done"
             /\ ret.err.is = "InvalidTaskType"

\* C5: an invocation with a malformed source or destination reference name
\* ends with a reference-resolution error from the diff step, before any
\* backend is constructed or called.
C5_MalformedRefRejected ==
    (pc = "done" /\ (config.SourceRef \in MalformedNames
                       \/ config.DestinationRef \in MalformedNames))
        => /\ ret.err \in ReferenceResolutionErrors
           /\ steps = Prefix(1)
           /\ runtime = NoRuntime
           /\ ~execCall.called

\* C6: in one invocation the diff runs at most once, at most one backend is
\* constructed, ExecPrompt is called at most once, nothing runs after an
\* error, and an invocation that ends with an error returns "".
C6_NoRetryNoPartial ==
    /\ Count("diff") <= 1
    /\ Count("construct") <= 1
    /\ Count("exec") <= 1
    /\ ret.err # nil => pc = "done"
    /\ (pc = "done" /\ ret.err # nil) => ret.content = ""

C6_Witness ==
    /\ pc = "done"
    /\ ret = Return("", ErrBackendExecution)
    /\ Count("exec") = 1
    /\ Count("diff") = 1

\* C7: when the caller cancels while the backend call is in progress, the
\* context handed to ExecPrompt is cancelled.
C7_CancellationReachesBackend ==
    (pc = "inExec" /\ callerCancelled) => CtxDone(execCall.ctx, callerCancelled)

\* C8: runDiffWithGoGit, given references that resolve, diffs the source
\* commit's tree with the tree of the current head commit when the
\* destination is empty, and with the named destination's tree otherwise.
C8_GoGitDestinationTree ==
    LET src == RepoReference(env, config.SourceRef)
        dst == RepoReference(env, IF config.DestinationRef = "" THEN "HEAD"
                                  ELSE config.DestinationRef)
    IN (/\ goGitOut.ran
        /\ env.inRepo
        /\ Validate(config.SourceRef) = nil /\ src.err = nil
        /\ (config.DestinationRef = "" \/ Validate(config.DestinationRef) = nil)
        /\ dst.err = nil)
        => /\ goGitOut.err = nil
           /\ ChangedPaths(goGitOut.out)
                = {p \in Paths : env.tree[src.ref.hash][p] # env.tree[dst.ref.hash][p]}

\* C9: for a source and a destination that both name commits, runDiffOnCli
\* and runDiffWithGoGit list the same set of changed paths.
C9_SameChangedPaths ==
    (/\ cliOut.ran /\ goGitOut.ran
     /\ env.inRepo
     /\ config.DestinationRef # ""
     /\ CliRevision(env, config.SourceRef).err = nil
     /\ CliRevision(env, config.DestinationRef).err = nil)
        => ChangedPaths(cliOut.out) = ChangedPaths(goGitOut.out)

\* C10: ExecPrompt is called with getPrompt's string for this invocation's
\* task type and the diff text of this invocation, on the backend variant
\* the platform field names, built from this configuration's values.
C10_ExecArguments ==
    execCall.called
        => /\ execCall.system = getPrompt(promptType)
           /\ execCall.user = runDiffOnCli(env, config).out
           /\ runDiffOnCli(env, config).err = nil
           /\ config.Platform \in Recognised
           /\ execCall.runtime.variant = config.Platform
           /\ execCall.runtime.cfg.PlatformApiKey = config.PlatformApiKey
           /\ execCall.runtime.cfg.Model = config.Model
           /\ execCall.runtime.cfg.PromptMaxTokens = config.PromptMaxTokens
           /\ execCall.runtime.cfg.PromptRequestTimeoutSeconds
                = config.PromptRequestTimeoutSeconds

C10_Witness ==
    /\ pc = "inExec"
    /\ execCall.called
    /\ execCall.runtime.variant = "ollama"
    /\ execCall.user # EmptyText
    /\ promptType = PromptCodeReview
    /\ calls = MaxCalls

====
